---- MODULE Spec2Model ----
(***************************************************************************)
(* Model of doctor_dashboard/backend/server.js: the MQTT 'message'        *)
(* handler (ingestion, merge-or-create, broadcast), the socket.io viewer  *)
(* registry and the query routes.                                         *)
(*                                                                         *)
(* Representation:                                                         *)
(*  - a topic is the sequence of its levels, i.e. topic.split('/');       *)
(*    topicParts[k] of the source is topicParts[k + 1] here;               *)
(*  - a payload is the sequence of its characters;                        *)
(*  - numbers are fixed-point, in tenths (36.5 is 365, 110 is 1100);      *)
(*  - times are milliseconds, as Date.now();                              *)
(*  - an object with optional properties is a function whose DOMAIN is    *)
(*    the set of properties present.                                      *)
(***************************************************************************)
EXTENDS Integers, Sequences, FiniteSets, TLC

\* ---------------------------------------------------------------- bounds
\* number of telemetry messages delivered to the handler
MaxMsgs == 2
\* number of clock advances
MaxTicks == 2
\* number of browser sockets
MaxViewers == 1
\* number of HTTP requests
MaxRequests == 1

\* ------------------------------------------------------ program constants
\* server.js:165  Date.now() - 60000
Window == 60000
\* server.js:88   .limit(100)
Limit == 100
\* parseFloat's NaN (server.js:121); no payload of the model parses below 0
NaN == -1

VitalFields == {"heartRate", "temperature", "bloodPressureSystolic",
                "bloodPressureDiastolic", "oxygenSaturation"}

\* ----------------------------------------------------- Patient Directory
\* server.js:229-275, the documents initializeSampleData inserts (P001, P003)
samplePatients ==
  { [patientId |-> "P001", name |-> "John Doe", thingspeakChannelId |-> "1234567",
     vitalThresholds |->
       [heartRate        |-> [min |-> 600, max |-> 1000],
        temperature      |-> [min |-> 365, max |-> 375],
        bloodPressure    |-> [min |-> 900, max |-> 1400],
        oxygenSaturation |-> [min |-> 950, max |-> 1000]]],
    [patientId |-> "P003", name |-> "Robert Johnson", thingspeakChannelId |-> "2468135",
     vitalThresholds |->
       [heartRate        |-> [min |-> 550, max |-> 900],
        temperature      |-> [min |-> 365, max |-> 375],
        bloodPressure    |-> [min |-> 1000, max |-> 1500],
        oxygenSaturation |-> [min |-> 920, max |-> 1000]]] }

\* the result of a lookup that matches no document (null)
NoDoc == [patientId |-> "null"]

\* ------------------------------------------------------------ pure helpers
\* topicParts[i] of the source (0-based); undefined past the end
TopicPart(topic, i) ==
  IF i + 1 \in DOMAIN topic THEN topic[i + 1] ELSE "undefined"

Digits == {"0", "1", "2", "3", "4", "5", "6", "7", "8", "9"}

DigitVal(c) ==
  CASE c = "0" -> 0 [] c = "1" -> 1 [] c = "2" -> 2 [] c = "3" -> 3
    [] c = "4" -> 4 [] c = "5" -> 5 [] c = "6" -> 6 [] c = "7" -> 7
    [] c = "8" -> 8 [] c = "9" -> 9

\* length of the longest prefix of s made of digits
RECURSIVE DigitPrefix(_)
DigitPrefix(s) ==
  IF s = <<>> \/ Head(s) \notin Digits THEN 0 ELSE 1 + DigitPrefix(Tail(s))

\* value of a digit string
RECURSIVE DigitsVal(_)
DigitsVal(s) ==
  IF s = <<>> THEN 0 ELSE 10 * DigitsVal(SubSeq(s, 1, Len(s) - 1)) + DigitVal(s[Len(s)])

\* parseFloat(message.toString()): the longest numeric prefix, NaN when there
\* is none; in tenths (payloads of the model carry at most one decimal)
parseFloat(s) ==
  LET n    == DigitPrefix(s)
      rest == SubSeq(s, n + 1, Len(s))
      frac == IF rest # <<>> /\ Head(rest) = "." THEN DigitPrefix(Tail(rest)) ELSE 0
  IN  IF n = 0 /\ frac = 0 THEN NaN
      ELSE 10 * DigitsVal(SubSeq(s, 1, n))
           + (IF frac = 0 THEN 0 ELSE DigitVal(rest[2]))

\* JavaScript's < and > : false when an operand is NaN
JsLt(a, b) == a # NaN /\ b # NaN /\ a < b
JsGt(a, b) == a # NaN /\ b # NaN /\ a > b

\* a lookup whose filter is lost: it resolves to a patient whatever the channel
PatientFindOneUnfiltered(dir, channelId) ==
  IF \E p \in dir : p.thingspeakChannelId = channelId
  THEN CHOOSE p \in dir : p.thingspeakChannelId = channelId
  ELSE CHOOSE p \in dir : TRUE

\* server.js:117: Patient.findOne({ thingspeakChannelId: channelId })
PatientFindOne(dir, channelId) ==
  IF \E p \in dir : p.thingspeakChannelId = channelId
  THEN CHOOSE p \in dir : p.thingspeakChannelId = channelId
  ELSE NoDoc

\* server.js:122-159, the properties the switch sets on updatedReading
SwitchUpdatedReading(fieldNumber, messageValue) ==
  CASE fieldNumber = "field1" -> [x \in {"heartRate"} |-> messageValue]
    [] fieldNumber = "field2" -> [x \in {"temperature"} |-> messageValue]
    [] fieldNumber = "field3" -> [x \in {"bloodPressureSystolic"} |-> messageValue]
    [] fieldNumber = "field4" -> [x \in {"bloodPressureDiastolic"} |-> messageValue]
    [] fieldNumber = "field5" -> [x \in {"oxygenSaturation"} |-> messageValue]
    [] OTHER -> <<>>

\* the test of lines 130-131, 137-138, 144-145 and 154-155
OutOfRange(messageValue, range) ==
  JsLt(messageValue, range.min) \/ JsGt(messageValue, range.max)

\* server.js:123-159, the value the switch leaves in isAlert
SwitchIsAlert(fieldNumber, messageValue, patient) ==
  CASE fieldNumber = "field1" -> OutOfRange(messageValue, patient.vitalThresholds.heartRate)
    [] fieldNumber = "field2" -> OutOfRange(messageValue, patient.vitalThresholds.temperature)
    [] fieldNumber = "field3" -> OutOfRange(messageValue, patient.vitalThresholds.bloodPressure)
    [] fieldNumber = "field4" -> FALSE
    [] fieldNumber = "field5" -> OutOfRange(messageValue, patient.vitalThresholds.oxygenSaturation)
    [] OTHER -> FALSE

\* Object.assign(target, source) and the object spread { ...source, ...more }
ObjectAssign(target, source) == source @@ target

\* a merge that assigns the message's verdict to the reading's flag
MergeIntoAssigned(reading, updatedReading, isAlert) ==
  [ObjectAssign(reading, updatedReading) EXCEPT !.isAlert = isAlert]

\* server.js:171-172: the message's properties are assigned to the loaded
\* reading and the alert is ORed in
MergeInto(reading, updatedReading, isAlert) ==
  LET assigned == ObjectAssign(reading, updatedReading)
  IN  IF isAlert THEN [assigned EXCEPT !.isAlert = TRUE] ELSE assigned

\* a constructor call that leaves isAlert out: the schema's default, false
NewReadingDefaultFlag(id, patientId, updatedReading, isAlert, time) ==
  ObjectAssign([_id |-> id, patientId |-> patientId, timestamp |-> time,
                isAlert |-> FALSE],
               updatedReading)

\* server.js:176-180: new Reading({ patientId, ...updatedReading, isAlert });
\* the schema (lines 48-57) defaults timestamp to Date.now()
NewReading(id, patientId, updatedReading, isAlert, time) ==
  ObjectAssign([_id |-> id, patientId |-> patientId, timestamp |-> time,
                isAlert |-> isAlert],
               updatedReading)

\* Mongoose casts every Number path when it is set; a NaN fails the cast and
\* the document's save() rejects with a ValidationError
Invalid(doc) == \E f \in DOMAIN doc \cap VitalFields : doc[f] = NaN

\* a filter with $gt in place of $gte
ReadingMatchesAfter(store, patientId, cutoff) ==
  { i \in DOMAIN store : store[i].patientId = patientId /\ store[i].timestamp > cutoff }

\* Reading.findOne({ patientId, timestamp: { $gte: cutoff } }): the documents
\* the filter matches; findOne has no sort, so which of them it returns is
\* the store's natural order
ReadingMatches(store, patientId, cutoff) ==
  { i \in DOMAIN store : store[i].patientId = patientId /\ store[i].timestamp >= cutoff }

\* the paths of doc that differ from the document as it was loaded: what
\* save() of an existing document writes ($set of the modified paths)
ModifiedPaths(loaded, doc) ==
  { f \in DOMAIN doc : f \notin DOMAIN loaded \/ loaded[f] # doc[f] }

\* a save() that writes the whole document as the handler holds it
SaveExistingWhole(store, loaded, doc) ==
  [ i \in DOMAIN store |-> IF store[i]._id = doc._id THEN doc ELSE store[i] ]

\* the store after save() of an existing document: an update, by _id, of the
\* modified paths only
SaveExisting(store, loaded, doc) ==
  [ i \in DOMAIN store |->
      IF store[i]._id = doc._id
      THEN [ f \in ModifiedPaths(loaded, doc) |-> doc[f] ] @@ store[i]
      ELSE store[i] ]

\* an insert under a rule of one reading per patient and window: refused
\* when the store holds a reading of the patient within the window of the
\* new one
SaveNewOncePerWindow(store, doc) ==
  IF \E i \in DOMAIN store :
       /\ store[i].patientId = doc.patientId
       /\ store[i].timestamp - doc.timestamp <= Window
       /\ doc.timestamp - store[i].timestamp <= Window
  THEN store
  ELSE Append(store, doc)

\* the store after save() of a new document: an insert
SaveNew(store, doc) == Append(store, doc)

\* ------------------------------------------------------------------ state
VARIABLES
  patients,    \* the Patient collection
  readings,    \* the Reading collection, in natural order
  handlers,    \* the invocations of the 'message' handler, by arrival number
  now,         \* Date.now()
  ticks,       \* clock advances so far
  nextId,      \* the ObjectId generator
  sockets,     \* the sockets connected to io
  events,      \* every event io.emit has sent, in order
  inbox,       \* per socket, the events written to it (indices into events)
  process,     \* "up", or "crashed" once an exception or rejection escapes
  response,    \* the HTTP response sent last
  requests     \* HTTP requests answered so far

vars == <<patients, readings, handlers, now, ticks, nextId, sockets, events, inbox,
          process, response, requests>>

Msgs == 1 .. MaxMsgs
Viewers == 1 .. MaxViewers

\* the messages delivered to the handler, which takes whatever topic the
\* client hands it. Lines 113-114 index the channel at level 1 and the field
\* at level 3: topics come in that layout, and in the layout of the
\* subscription of line 106, channels/+/subscribe/fields/+, whose level 3 is
\* the literal "fields"
Inputs ==
  { [topic |-> <<"channels", "1234567", "fields", "field1">>, message |-> <<"8", "0">>],
    [topic |-> <<"channels", "1234567", "fields", "field1">>, message |-> <<"1", "1", "0">>],
    [topic |-> <<"channels", "1234567", "fields", "field2">>, message |-> <<"3", "7", ".", "2">>],
    [topic |-> <<"channels", "1234567", "fields", "field1">>, message |-> <<"x">>],
    [topic |-> <<"channels", "1234567", "fields", "field6">>, message |-> <<"8", "0">>],
    [topic |-> <<"channels", "1234567", "subscribe", "fields", "field1">>,
     message |-> <<"1", "1", "0">>],
    [topic |-> <<"channels", "9999999", "fields", "field1">>, message |-> <<"8", "0">>] }

IdleHandler ==
  [pc |-> "idle", topic |-> <<>>, message |-> <<>>, patient |-> NoDoc,
   updatedReading |-> <<>>, isAlert |-> FALSE, cutoff |-> 0,
   loaded |-> NoDoc, reading |-> NoDoc, isNew |-> FALSE, error |-> FALSE,
   saved |-> 0]

\* the Reading collection the server finds when it starts: empty, or holding
\* the reading an earlier run stored for P001's heart rate of 80
StoredBefore ==
  { <<>>,
    << [_id |-> 1, patientId |-> "P001", timestamp |-> 0, isAlert |-> FALSE,
        heartRate |-> 800] >> }

NoResponse == [status |-> 0]

\* the state the server starts in, given the Reading collection it finds
InitWith(stored) ==
  /\ patients = samplePatients
  /\ readings \in stored
  /\ handlers = [h \in Msgs |-> IdleHandler]
  /\ now = 0
  /\ ticks = 0
  /\ nextId = Len(readings) + 1
  /\ sockets = {}
  /\ events = <<>>
  /\ inbox = [v \in Viewers |-> <<>>]
  /\ process = "up"
  /\ response = NoResponse
  /\ requests = 0

Init == InitWith(StoredBefore)

\* --------------------------------------------------------------- actions
\* a handler whose updatedReading and isAlert are declared outside the
\* callback: an invocation that writes them writes them for every invocation
\* in progress
StepShared(h, rec) ==
  handlers' =
    [ g \in Msgs |->
        IF g = h THEN rec
        ELSE IF handlers[g].pc \in {"reading", "save", "emit"}
                /\ rec.pc \in {"reading", "save", "emit"}
             THEN [handlers[g] EXCEPT !.updatedReading = rec.updatedReading,
                                      !.isAlert = rec.isAlert]
             ELSE handlers[g] ]

\* server.js:109-126: the variables of the handler are local to the
\* invocation; a step of invocation h changes those of h alone
Step(h, rec) == handlers' = [handlers EXCEPT ![h] = rec]

\* the handler returns: its database documents and its filter are dropped;
\* what it was given and what it decided stay on record
Return(h, rec) ==
  Step(h, [rec EXCEPT !.pc = "done", !.cutoff = 0, !.loaded = NoDoc, !.reading = NoDoc])

\* server.js:109-117: a message arrives; the handler splits the topic and
\* awaits Patient.findOne. Handler numbers are given in order of arrival
ReceiveFrom(h, inputs) ==
  /\ process = "up"
  /\ handlers[h].pc = "idle"
  /\ \A g \in Msgs : g < h => handlers[g].pc # "idle"
  /\ \E in \in inputs :
       Step(h, [handlers[h] EXCEPT !.pc = "patient", !.topic = in.topic,
                                   !.message = in.message])
  /\ UNCHANGED <<patients, readings, now, ticks, nextId, sockets, events, inbox, process, response, requests>>

Receive(h) == ReceiveFrom(h, Inputs)

\* a message that arrives while no other invocation of the handler is pending
ReceiveAlone(h) ==
  /\ \A g \in Msgs : handlers[g].pc \in {"idle", "done"}
  /\ ReceiveFrom(h, Inputs)

\* server.js:117-118: the lookup resolves to null and the handler returns
PatientNotFound(h) ==
  /\ process = "up"
  /\ handlers[h].pc = "patient"
  /\ PatientFindOne(patients, TopicPart(handlers[h].topic, 1)) = NoDoc
  /\ Return(h, handlers[h])
  /\ UNCHANGED <<patients, readings, now, ticks, nextId, sockets, events, inbox, process, response, requests>>

\* server.js:117-167: the lookup resolves to a patient; the handler parses
\* the value, runs the switch and awaits Reading.findOne, whose filter holds
\* Date.now() - 60000 as of this moment
PatientFound(h) ==
  LET patient      == PatientFindOne(patients, TopicPart(handlers[h].topic, 1))
      fieldNumber  == TopicPart(handlers[h].topic, 3)
      messageValue == parseFloat(handlers[h].message)
  IN  /\ process = "up"
      /\ handlers[h].pc = "patient"
      /\ patient # NoDoc
      /\ Step(h, [handlers[h] EXCEPT
                    !.pc = "reading",
                    !.patient = patient,
                    !.updatedReading = SwitchUpdatedReading(fieldNumber, messageValue),
                    !.isAlert = SwitchIsAlert(fieldNumber, messageValue, patient),
                    !.cutoff = now - Window])
      /\ UNCHANGED <<patients, readings, now, ticks, nextId, sockets, events, inbox, process, response, requests>>

\* server.js:162-173: Reading.findOne resolves to a stored reading; the
\* handler assigns the message's properties to it, ORs the alert in and
\* awaits save()
ReadingFound(h) ==
  /\ process = "up"
  /\ handlers[h].pc = "reading"
  /\ \E i \in ReadingMatches(readings, handlers[h].patient.patientId, handlers[h].cutoff) :
       LET doc == MergeInto(readings[i], handlers[h].updatedReading, handlers[h].isAlert)
       IN  Step(h, [handlers[h] EXCEPT !.pc = "save", !.loaded = readings[i],
                                       !.reading = doc, !.isNew = FALSE])
  /\ UNCHANGED <<patients, readings, now, ticks, nextId, sockets, events, inbox, process, response, requests>>

\* server.js:162-181: Reading.findOne resolves to null; the handler builds a
\* new Reading (timestamp defaults to Date.now(), a fresh _id) and awaits
\* save()
ReadingNotFound(h) ==
  /\ process = "up"
  /\ handlers[h].pc = "reading"
  /\ ReadingMatches(readings, handlers[h].patient.patientId, handlers[h].cutoff) = {}
  /\ LET doc == NewReading(nextId, handlers[h].patient.patientId,
                           handlers[h].updatedReading, handlers[h].isAlert, now)
     IN  Step(h, [handlers[h] EXCEPT !.pc = "save", !.reading = doc, !.isNew = TRUE])
  /\ nextId' = nextId + 1
  /\ UNCHANGED <<patients, readings, now, ticks, sockets, events, inbox, process, response, requests>>

\* a rejected save that is swallowed where it happens, the handler going on
\* to the emits (a rejected lookup still ends the handler)
AwaitRejectsThenEmits(h) ==
  /\ process = "up"
  /\ handlers[h].pc \in {"patient", "reading", "save"}
  /\ IF handlers[h].pc = "save"
     THEN Step(h, [handlers[h] EXCEPT !.pc = "emit", !.error = TRUE])
     ELSE Return(h, [handlers[h] EXCEPT !.error = TRUE])
  /\ UNCHANGED <<patients, readings, now, ticks, nextId, sockets, events, inbox, process, response, requests>>

\* a rejection with no try/catch around the await: it escapes the handler
\* and takes the process down
AwaitRejectsUncaught(h) ==
  /\ process = "up"
  /\ handlers[h].pc \in {"patient", "reading", "save"}
  /\ Return(h, [handlers[h] EXCEPT !.error = TRUE])
  /\ process' = "crashed"
  /\ UNCHANGED <<patients, readings, now, ticks, nextId, sockets, events, inbox, response, requests>>

\* server.js:117, 162, 173, 181 with 205-207: the awaited database call
\* rejects; the catch logs and the handler ends
AwaitRejects(h) ==
  /\ process = "up"
  /\ handlers[h].pc \in {"patient", "reading", "save"}
  /\ Return(h, [handlers[h] EXCEPT !.error = TRUE])
  /\ UNCHANGED <<patients, readings, now, ticks, nextId, sockets, events, inbox, process, response, requests>>

\* a patientUpdate payload that carries the flag of the saved document
PatientUpdateOfDocument(h) ==
  [type |-> "patientUpdate", handler |-> h,
   patientId |-> handlers[h].patient.patientId,
   reading |-> ObjectAssign(handlers[h].updatedReading,
                            [timestamp |-> now, isAlert |-> handlers[h].reading.isAlert]),
   audience |-> sockets]

\* server.js:185-192, the patientUpdate payload
PatientUpdate(h) ==
  [type |-> "patientUpdate", handler |-> h,
   patientId |-> handlers[h].patient.patientId,
   reading |-> ObjectAssign(handlers[h].updatedReading,
                            [timestamp |-> now, isAlert |-> handlers[h].isAlert]),
   audience |-> sockets]

\* server.js:196-203, the patientAlert payload
PatientAlert(h) ==
  [type |-> "patientAlert", handler |-> h,
   patientId |-> handlers[h].patient.patientId,
   name |-> handlers[h].patient.name,
   reading |-> ObjectAssign(handlers[h].updatedReading, [timestamp |-> now]),
   audience |-> sockets]

\* emits that send patientAlert whatever the verdict
EmittedBoth(h) == <<PatientUpdate(h), PatientAlert(h)>>

\* server.js:185-204, the events the handler emits after the save
Emitted(h) ==
  IF handlers[h].isAlert THEN <<PatientUpdate(h), PatientAlert(h)>>
  ELSE <<PatientUpdate(h)>>

\* io.emit: each event is written once to every connected socket
IoEmit(evs) ==
  /\ events' = events \o evs
  /\ inbox' = [v \in Viewers |->
                 IF v \in sockets
                 THEN inbox[v] \o [k \in 1 .. Len(evs) |-> Len(events) + k]
                 ELSE inbox[v]]

\* server.js:173, 181: the database applies the save (an update of the
\* modified paths, or an insert) and the awaited promise resolves
SaveCommits(h) ==
  /\ process = "up"
  /\ handlers[h].pc = "save"
  /\ ~Invalid(handlers[h].reading)
  /\ readings' = IF handlers[h].isNew
                 THEN SaveNew(readings, handlers[h].reading)
                 ELSE SaveExisting(readings, handlers[h].loaded, handlers[h].reading)
  /\ Step(h, [handlers[h] EXCEPT !.pc = "emit", !.saved = handlers[h].reading._id])
  /\ UNCHANGED <<patients, now, ticks, nextId, sockets, events, inbox, process, response, requests>>

\* server.js:184-204: the handler resumes after the save, emits
\* patientUpdate and, on an alert, patientAlert, and returns
EmitAfterSave(h) ==
  /\ process = "up"
  /\ handlers[h].pc = "emit"
  /\ IoEmit(Emitted(h))
  /\ Return(h, handlers[h])
  /\ UNCHANGED <<patients, readings, now, ticks, nextId, sockets, process, response, requests>>

\* a connection handler that replays the events sent so far to the new socket
ConnectionReplays(v) ==
  /\ process = "up"
  /\ v \notin sockets
  /\ sockets' = sockets \cup {v}
  /\ inbox' = [inbox EXCEPT ![v] = inbox[v] \o [k \in DOMAIN events |-> k]]
  /\ UNCHANGED <<patients, readings, handlers, now, ticks, nextId, events, process, response, requests>>

\* server.js:211-213: a browser connects
Connection(v) ==
  /\ process = "up"
  /\ v \notin sockets
  /\ sockets' = sockets \cup {v}
  /\ UNCHANGED <<patients, readings, handlers, now, ticks, nextId, events, inbox, process, response, requests>>

\* server.js:214-216: a browser disconnects
Disconnect(v) ==
  /\ process = "up"
  /\ v \in sockets
  /\ sockets' = sockets \ {v}
  /\ UNCHANGED <<patients, readings, handlers, now, ticks, nextId, events, inbox, process, response, requests>>

\* the clock: a millisecond passes, or a whole window
TickSteps == {1, Window}

Tick ==
  /\ process = "up"
  /\ ticks < MaxTicks
  /\ \E d \in TickSteps : now' = now + d
  /\ ticks' = ticks + 1
  /\ UNCHANGED <<patients, readings, handlers, nextId, sockets, events, inbox, process, response, requests>>

Next ==
  \/ \E h \in Msgs : Receive(h)
  \/ \E h \in Msgs : PatientNotFound(h)
  \/ \E h \in Msgs : PatientFound(h)
  \/ \E h \in Msgs : ReadingFound(h)
  \/ \E h \in Msgs : ReadingNotFound(h)
  \/ \E h \in Msgs : AwaitRejects(h)
  \/ \E h \in Msgs : SaveCommits(h)
  \/ \E h \in Msgs : EmitAfterSave(h)
  \/ \E v \in Viewers : Connection(v)
  \/ \E v \in Viewers : Disconnect(v)
  \/ Tick

Spec == Init /\ [][Next]_vars

\* the same program when every message arrives after the handling of the
\* one before it has ended
NextSeq ==
  \/ \E h \in Msgs : ReceiveAlone(h)
  \/ \E h \in Msgs : PatientNotFound(h)
  \/ \E h \in Msgs : PatientFound(h)
  \/ \E h \in Msgs : ReadingFound(h)
  \/ \E h \in Msgs : ReadingNotFound(h)
  \/ \E h \in Msgs : AwaitRejects(h)
  \/ \E h \in Msgs : SaveCommits(h)
  \/ \E h \in Msgs : EmitAfterSave(h)
  \/ \E v \in Viewers : Connection(v)
  \/ \E v \in Viewers : Disconnect(v)
  \/ Tick

SpecSeq == Init /\ [][NextSeq]_vars

\* server.js:173, 181 with 205-207, when no database call fails: save()
\* still rejects a document that does not pass validation; the catch logs
\* and the handler ends
ValidationRejects(h) ==
  /\ process = "up"
  /\ handlers[h].pc = "save"
  /\ Invalid(handlers[h].reading)
  /\ Return(h, [handlers[h] EXCEPT !.error = TRUE])
  /\ UNCHANGED <<patients, readings, now, ticks, nextId, sockets, events, inbox, process, response, requests>>

\* the continuation of handler h that is ready to run
Handle(h) ==
  \/ PatientNotFound(h)
  \/ PatientFound(h)
  \/ ReadingFound(h)
  \/ ReadingNotFound(h)
  \/ ValidationRejects(h)
  \/ SaveCommits(h)
  \/ EmitAfterSave(h)

\* the program when the database answers every call and fails none
NextLive ==
  \/ \E h \in Msgs : Receive(h)
  \/ \E h \in Msgs : Handle(h)
  \/ \E v \in Viewers : Connection(v)
  \/ \E v \in Viewers : Disconnect(v)
  \/ Tick

\* the database answers every call in the end and the event loop runs every
\* continuation that is ready
Fairness == \A h \in Msgs : WF_vars(Handle(h))

SpecLive == Init /\ [][NextLive]_vars /\ Fairness

\* the Reading collection two racing handlers leave behind (the messages
\* field1 "80" and field2 "37.2" of P001, created a millisecond apart), as
\* the messages that come next find it
StoredAfterRace ==
  { << [_id |-> 1, patientId |-> "P001", timestamp |-> 0, isAlert |-> FALSE,
        heartRate |-> 800],
       [_id |-> 2, patientId |-> "P001", timestamp |-> 1, isAlert |-> FALSE,
        temperature |-> 372] >> }

InitAfterRace == InitWith(StoredAfterRace)

SpecAfterRace == InitAfterRace /\ [][Next]_vars

\* ------------------------------------------------------- Query Surface
\* the order MongoDB leaves documents of equal sort key in is not specified:
\* either of the two orders of a pair
TieOrders == {"natural", "reversed"}

\* a find that sorts by ascending timestamp
ReadingsFindAscending(store, patientId, order) ==
  LET matched == { i \in DOMAIN store : store[i].patientId = patientId }
      Before(i, j) ==
        \/ store[i].timestamp < store[j].timestamp
        \/ /\ store[i].timestamp = store[j].timestamp
           /\ IF order = "natural" THEN i < j ELSE i > j
      rank == [ i \in matched |-> Cardinality({ j \in matched : Before(j, i) }) ]
      n == IF Cardinality(matched) < Limit THEN Cardinality(matched) ELSE Limit
  IN  [ k \in 1 .. n |-> store[CHOOSE i \in matched : rank[i] = k - 1] ]

\* server.js:86-88: Reading.find({ patientId }).sort({ timestamp: -1 }).limit(100)
ReadingsFind(store, patientId, order) ==
  LET matched == { i \in DOMAIN store : store[i].patientId = patientId }
      Before(i, j) ==
        \/ store[i].timestamp > store[j].timestamp
        \/ /\ store[i].timestamp = store[j].timestamp
           /\ IF order = "natural" THEN i < j ELSE i > j
      rank == [ i \in matched |-> Cardinality({ j \in matched : Before(j, i) }) ]
      n == IF Cardinality(matched) < Limit THEN Cardinality(matched) ELSE Limit
  IN  [ k \in 1 .. n |-> store[CHOOSE i \in matched : rank[i] = k - 1] ]

\* the :patientId values requested
RequestedIds == {"P001", "P003", "P404"}

\* a route that hands the patient's readings over and removes them from the
\* collection
GetReadingsAndRemove(patientId) ==
  /\ process = "up"
  /\ requests < MaxRequests
  /\ \E order \in TieOrders :
       response' = [status |-> 200, route |-> "readings", patientId |-> patientId,
                    body |-> ReadingsFind(readings, patientId, order)]
  /\ readings' = SelectSeq(readings, LAMBDA r : r.patientId # patientId)
  /\ requests' = requests + 1
  /\ UNCHANGED <<patients, handlers, now, ticks, nextId, sockets, events,
                 inbox, process>>

\* server.js:84-90: GET /api/readings/:patientId answers 200 with the
\* documents found
GetReadings(patientId) ==
  /\ process = "up"
  /\ requests < MaxRequests
  /\ \E order \in TieOrders :
       response' = [status |-> 200, route |-> "readings", patientId |-> patientId,
                    body |-> ReadingsFind(readings, patientId, order)]
  /\ requests' = requests + 1
  /\ UNCHANGED <<patients, readings, handlers, now, ticks, nextId, sockets, events,
                 inbox, process>>

\* server.js:91-93: the find rejects and the route answers 500
GetReadingsFails(patientId) ==
  /\ process = "up"
  /\ requests < MaxRequests
  /\ response' = [status |-> 500, route |-> "readings", patientId |-> patientId,
                  body |-> <<>>]
  /\ requests' = requests + 1
  /\ UNCHANGED <<patients, readings, handlers, now, ticks, nextId, sockets, events,
                 inbox, process>>

\* server.js:74: Patient.findOne({ patientId: req.params.patientId })
PatientFindOneById(dir, patientId) ==
  IF \E p \in dir : p.patientId = patientId
  THEN CHOOSE p \in dir : p.patientId = patientId
  ELSE NoDoc

\* error.message of a rejected database call
DbErrors == {"connection lost"}

\* the route without lines 75-77: whatever the lookup resolved to goes out
\* with status 200
GetPatientUnchecked(patientId) ==
  /\ process = "up"
  /\ requests < MaxRequests
  /\ response' = [status |-> 200, route |-> "patient", patientId |-> patientId,
                  body |-> PatientFindOneById(patients, patientId)]
  /\ requests' = requests + 1
  /\ UNCHANGED <<patients, readings, handlers, now, ticks, nextId, sockets, events,
                 inbox, process>>

\* server.js:72-78: GET /api/patients/:patientId answers 404 when the lookup
\* resolves to null and 200 with the document otherwise
GetPatient(patientId) ==
  LET patient == PatientFindOneById(patients, patientId)
  IN  /\ process = "up"
      /\ requests < MaxRequests
      /\ response' =
           IF patient = NoDoc
           THEN [status |-> 404, route |-> "patient", patientId |-> patientId,
                 body |-> [error |-> "Patient not found"]]
           ELSE [status |-> 200, route |-> "patient", patientId |-> patientId,
                 body |-> patient]
      /\ requests' = requests + 1
      /\ UNCHANGED <<patients, readings, handlers, now, ticks, nextId, sockets, events,
                     inbox, process>>

\* server.js:79-81: the lookup rejects and the route answers 500 with the
\* rejection's message
GetPatientFails(patientId) ==
  /\ process = "up"
  /\ requests < MaxRequests
  /\ \E msg \in DbErrors :
       response' = [status |-> 500, route |-> "patient", patientId |-> patientId,
                    body |-> [error |-> msg]]
  /\ requests' = requests + 1
  /\ UNCHANGED <<patients, readings, handlers, now, ticks, nextId, sockets, events,
                 inbox, process>>

\* server.js:63-66: GET /api/patients answers 200 with every patient
ListPatients ==
  /\ process = "up"
  /\ requests < MaxRequests
  /\ response' = [status |-> 200, route |-> "patients", body |-> patients]
  /\ requests' = requests + 1
  /\ UNCHANGED <<patients, readings, handlers, now, ticks, nextId, sockets, events,
                 inbox, process>>

\* server.js:67-69: the find rejects and the route answers 500
ListPatientsFails ==
  /\ process = "up"
  /\ requests < MaxRequests
  /\ \E msg \in DbErrors :
       response' = [status |-> 500, route |-> "patients", body |-> [error |-> msg]]
  /\ requests' = requests + 1
  /\ UNCHANGED <<patients, readings, handlers, now, ticks, nextId, sockets, events,
                 inbox, process>>

\* the Reading collection of a server that has run for a while: a reading
\* of P003, then Limit - 1 readings of P001, one per window, the last one
\* just out of the window
StoredLong ==
  { [ k \in 1 .. Limit |->
        [_id |-> k, patientId |-> IF k = 1 THEN "P003" ELSE "P001",
         timestamp |-> (k - Limit - 1) * (Window + 1),
         isAlert |-> FALSE, heartRate |-> 800] ] }

InitQuery == InitWith(StoredLong)

\* the messages that arrive while the queries are looked at, in the layout
\* of the subscription
QueryInputs ==
  { [topic |-> <<"channels", "1234567", "subscribe", "fields", "field1">>,
     message |-> <<"8", "0">>],
    [topic |-> <<"channels", "2468135", "subscribe", "fields", "field1">>,
     message |-> <<"8", "0">>] }

ReceiveDuringQueries(h) == ReceiveFrom(h, QueryInputs)

NextQuery ==
  \/ \E h \in Msgs : ReceiveDuringQueries(h)
  \/ \E h \in Msgs : PatientFound(h)
  \/ \E h \in Msgs : ReadingNotFound(h)
  \/ \E h \in Msgs : ReadingFound(h)
  \/ \E h \in Msgs : SaveCommits(h)
  \/ \E h \in Msgs : EmitAfterSave(h)
  \/ \E id \in RequestedIds : GetReadings(id)
  \/ \E id \in RequestedIds : GetReadingsFails(id)
  \/ \E id \in RequestedIds : GetPatient(id)
  \/ \E id \in RequestedIds : GetPatientFails(id)
  \/ ListPatients
  \/ ListPatientsFails

SpecQuery == InitQuery /\ [][NextQuery]_vars

\* ------------------------------------------------------------ vocabulary
\* the handler invocations that have got past the given point
Started(h) == handlers[h].pc # "idle"
Saved(h) == handlers[h].saved # 0
Ended(h) == handlers[h].pc = "done"

\* the field a message is addressed to: the last level of its topic
AddressedField(topic) == topic[Len(topic)]

\* the channel a message is addressed to: the level after "channels"
AddressedChannel(topic) == topic[2]

KnownFields == {"field1", "field2", "field3", "field4", "field5"}

KnownChannel(topic) ==
  \E p \in patients : p.thingspeakChannelId = AddressedChannel(topic)

\* the events a handler invocation has emitted, as positions in events
EventsOf(h, type) ==
  { k \in DOMAIN events : events[k].handler = h /\ events[k].type = type }

\* the stored reading with the given _id
Stored(id) == { i \in DOMAIN readings : readings[i]._id = id }

\* ------------------------------------------------------------------- C1
\* C1: a stored reading whose isAlert is true is still stored, with isAlert
\* true, after every step of every handler, whatever the interleaving.
C1_AlertNeverClears ==
  [][ \A i \in DOMAIN readings :
        readings[i].isAlert =>
          /\ i \in DOMAIN readings'
          /\ readings'[i]._id = readings[i]._id
          /\ readings'[i].isAlert ]_vars

\* a non-alerting message carrying a value has been merged into a reading
\* whose flag is set
C1_Witness ==
  \E h \in Msgs :
    /\ Saved(h) /\ ~handlers[h].isNew /\ ~handlers[h].isAlert
    /\ handlers[h].updatedReading # <<>>
    /\ \E i \in Stored(handlers[h].saved) :
         /\ readings[i].isAlert
         /\ \A f \in DOMAIN handlers[h].updatedReading :
              readings[i][f] = handlers[h].updatedReading[f]

\* ------------------------------------------------------------------- C3
\* C3: a message whose channel matches no patient never writes the Reading
\* Store and never has an event emitted for it; its handler ends after the
\* patient lookup.
C3_UnknownChannelDiscarded ==
  \A h \in Msgs :
    (Started(h) /\ ~KnownChannel(handlers[h].topic)) =>
      /\ handlers[h].pc \in {"patient", "done"}
      /\ ~Saved(h)
      /\ EventsOf(h, "patientUpdate") = {}
      /\ EventsOf(h, "patientAlert") = {}

\* a message for an unknown channel has been handled without an error,
\* next to a message that was stored and broadcast
C3_Witness ==
  \E h, g \in Msgs :
    /\ Ended(h) /\ ~KnownChannel(handlers[h].topic) /\ ~handlers[h].error
    /\ Ended(g) /\ Saved(g) /\ EventsOf(g, "patientUpdate") # {}

\* ------------------------------------------------------------------- C2
\* the vital a field number stands for
FieldSlot(field) ==
  CASE field = "field1" -> "heartRate"
    [] field = "field2" -> "temperature"
    [] field = "field3" -> "bloodPressureSystolic"
    [] field = "field4" -> "bloodPressureDiastolic"
    [] field = "field5" -> "oxygenSaturation"

\* the patient's current reading: the stored one with the greatest timestamp
CurrentReading(patientId) ==
  LET mine == { i \in DOMAIN readings : readings[i].patientId = patientId }
  IN  IF mine = {} THEN 0
      ELSE CHOOSE i \in mine :
             \A j \in mine : readings[j].timestamp <= readings[i].timestamp

\* C2: with messages handled one after another, the save of a message
\* addressed to field1..field5 whose window test ran within 60 seconds of
\* the current reading's timestamp adds no reading and leaves that reading
\* holding what it held plus the message's value in the message's vital; one
\* whose test ran 61 seconds or more after it adds a reading and leaves the
\* stored ones as they were.
C2_MergeWithinWindow ==
  [][ \A h \in Msgs :
        ( /\ handlers[h].pc = "save" /\ handlers'[h].pc = "emit"
          /\ AddressedField(handlers[h].topic) \in KnownFields
          /\ CurrentReading(handlers[h].patient.patientId) # 0 ) =>
        LET cur   == CurrentReading(handlers[h].patient.patientId)
            age   == (handlers[h].cutoff + Window) - readings[cur].timestamp
            slot  == FieldSlot(AddressedField(handlers[h].topic))
            value == parseFloat(handlers[h].message)
        IN  /\ age <= 60000 =>
                 /\ Len(readings') = Len(readings)
                 /\ slot \in DOMAIN readings'[cur]
                 /\ readings'[cur][slot] = value
                 /\ \A f \in DOMAIN readings[cur] \ {slot, "isAlert"} :
                      readings'[cur][f] = readings[cur][f]
            /\ age >= 61000 =>
                 /\ Len(readings') = Len(readings) + 1
                 /\ \A i \in DOMAIN readings : readings'[i] = readings[i] ]_vars

\* ------------------------------------------------------------------- C4
\* the reference verdict: outside [min, max] of the vital's threshold for
\* field1, field2, field3 and field5, never for field4
RefVerdict(field, value, patient) ==
  LET t == patient.vitalThresholds
      r == CASE field = "field1" -> t.heartRate
             [] field = "field2" -> t.temperature
             [] field = "field3" -> t.bloodPressure
             [] field = "field5" -> t.oxygenSaturation
             [] OTHER -> [min |-> value, max |-> value]
  IN  field # "field4" /\ (value < r.min \/ value > r.max)

\* C4: once the switch has run, the handler's isAlert is the reference
\* verdict of the field the message is addressed to and the number it
\* carries.
C4_VerdictIsReference ==
  \A h \in Msgs :
    ( /\ handlers[h].pc \in {"reading", "save", "emit", "done"}
      /\ handlers[h].patient # NoDoc
      /\ AddressedField(handlers[h].topic) \in KnownFields
      /\ parseFloat(handlers[h].message) # NaN ) =>
    handlers[h].isAlert = RefVerdict(AddressedField(handlers[h].topic),
                                     parseFloat(handlers[h].message),
                                     handlers[h].patient)

\* ------------------------------------------------------------------- C5
\* C5: a handler that has saved and ended has emitted exactly one
\* patientUpdate, and one patientAlert if its verdict is true and none
\* otherwise; a handler that has not saved has emitted nothing.
C5_EventsPerSavedMessage ==
  \A h \in Msgs :
    /\ (Ended(h) /\ Saved(h)) =>
         /\ Cardinality(EventsOf(h, "patientUpdate")) = 1
         /\ Cardinality(EventsOf(h, "patientAlert")) =
              IF handlers[h].isAlert THEN 1 ELSE 0
    /\ ~Saved(h) => EventsOf(h, "patientUpdate") \cup EventsOf(h, "patientAlert") = {}

\* an alerting message has produced both events and a non-alerting one only
\* the update
C5_Witness ==
  \E h, g \in Msgs :
    /\ Ended(h) /\ Saved(h) /\ handlers[h].isAlert
    /\ EventsOf(h, "patientUpdate") # {} /\ EventsOf(h, "patientAlert") # {}
    /\ Ended(g) /\ Saved(g) /\ ~handlers[g].isAlert
    /\ EventsOf(g, "patientUpdate") # {} /\ EventsOf(g, "patientAlert") = {}

\* ------------------------------------------------------------------- C6
\* C6: every event is emitted by a handler whose reading was already saved
\* and stored before the emitting step, never by one whose await rejected;
\* and a patientAlert directly follows the patientUpdate of its message.
C6_SaveBeforeEmit ==
  [][ /\ \A k \in DOMAIN events' \ DOMAIN events :
           LET h == events'[k].handler
           IN  /\ Saved(h) /\ Stored(handlers[h].saved) # {}
               /\ ~handlers'[h].error
      /\ \A k \in DOMAIN events' :
           events'[k].type = "patientAlert" =>
             /\ k - 1 \in DOMAIN events'
             /\ events'[k - 1].type = "patientUpdate"
             /\ events'[k - 1].handler = events'[k].handler
      /\ \A h \in Msgs :
           handlers'[h].error =>
             \A k \in DOMAIN events' : events'[k].handler # h ]_vars

\* both events of one message are out, and another message's save was
\* rejected
C6_Witness ==
  \E h, g \in Msgs :
    /\ EventsOf(h, "patientUpdate") # {} /\ EventsOf(h, "patientAlert") # {}
    /\ handlers[g].error /\ handlers[g].patient # NoDoc
    /\ handlers[g].updatedReading # <<>>

\* ------------------------------------------------------------------- C7
\* C7: the process stays up; a handler whose await rejected has ended, has
\* stored nothing and has had nothing emitted for it; and the next message
\* can always be received.
C7_ErrorsAreContained ==
  /\ process = "up"
  /\ \A h \in Msgs :
       handlers[h].error =>
         /\ Ended(h) /\ ~Saved(h)
         /\ EventsOf(h, "patientUpdate") \cup EventsOf(h, "patientAlert") = {}
  /\ \A h \in Msgs :
       (handlers[h].pc = "idle" /\ \A g \in Msgs : g < h => Started(g)) =>
         ENABLED Receive(h)

\* a message was handled, stored and broadcast after an earlier message's
\* handler had ended on an error
C7_Witness ==
  \E h, g \in Msgs :
    /\ h < g /\ handlers[h].error /\ Ended(h)
    /\ Ended(g) /\ Saved(g) /\ ~handlers[g].error
    /\ EventsOf(g, "patientUpdate") # {}

\* ------------------------------------------------------------------- C8
\* C8: a message for a known patient addressed to a field outside
\* field1..field5 never writes the Reading Store and never has an event
\* emitted for it.
C8_UnknownFieldIgnored ==
  \A h \in Msgs :
    ( /\ Started(h) /\ KnownChannel(handlers[h].topic)
      /\ AddressedField(handlers[h].topic) \notin KnownFields ) =>
    /\ ~Saved(h)
    /\ EventsOf(h, "patientUpdate") \cup EventsOf(h, "patientAlert") = {}

\* ------------------------------------------------------------------ C10
\* how many times event k was written to socket v
Deliveries(v, k) == Cardinality({ n \in DOMAIN inbox[v] : inbox[v][n] = k })

\* C10: every event has been written exactly once to each socket that was
\* connected when it was emitted and never to any other socket, at any
\* later time.
C10_DeliveredToConnectedOnce ==
  \A k \in DOMAIN events : \A v \in Viewers :
    Deliveries(v, k) = IF v \in events[k].audience THEN 1 ELSE 0

\* a socket that connected after one event missed it and got a later one
C10_Witness ==
  \E v \in Viewers : \E k, m \in DOMAIN events :
    /\ k < m /\ v \in sockets
    /\ v \notin events[k].audience /\ Deliveries(v, k) = 0
    /\ v \in events[m].audience /\ Deliveries(v, m) = 1

\* ------------------------------------------------------------------- C9
\* the readings of the patient in the store
ReadingsOf(store, patientId) ==
  { i \in DOMAIN store : store[i].patientId = patientId }

\* what C9 says of a response body, but for the order of its entries
IsLatestOfPatient(body, store, patientId) ==
  /\ \A k \in DOMAIN body : body[k].patientId = patientId
  /\ Len(body) <= 100
  /\ Len(body) = IF Cardinality(ReadingsOf(store, patientId)) < 100
                 THEN Cardinality(ReadingsOf(store, patientId)) ELSE 100
  /\ \A k \in DOMAIN body : \E i \in ReadingsOf(store, patientId) : store[i] = body[k]
  /\ \A k, m \in DOMAIN body : k # m => body[k]._id # body[m]._id
  /\ \A i \in ReadingsOf(store, patientId) :
       (\A k \in DOMAIN body : body[k]._id # store[i]._id) =>
         \A k \in DOMAIN body : body[k].timestamp >= store[i].timestamp

Answered ==
  response' # response /\ response'.status = 200 /\ response'.route = "readings"

\* C9 as stated: every 200 response of GET /api/readings/:patientId holds
\* only that patient's readings, at most 100, the latest ones, each with a
\* timestamp below that of the entry before it.
C9_StrictlyDescending ==
  [][ Answered =>
        /\ IsLatestOfPatient(response'.body, readings, response'.patientId)
        /\ \A k \in DOMAIN response'.body :
             k > 1 => response'.body[k - 1].timestamp > response'.body[k].timestamp
    ]_vars

\* C9 amended: ... the latest ones, each with a timestamp at or below that
\* of the entry before it.
C9_LatestDescending ==
  [][ Answered =>
        /\ IsLatestOfPatient(response'.body, readings, response'.patientId)
        /\ \A k \in DOMAIN response'.body :
             k > 1 => response'.body[k - 1].timestamp >= response'.body[k].timestamp
    ]_vars

\* a response cut at 100 entries while the store held more of the patient,
\* and another patient's reading too, with two entries of one timestamp
C9_Witness ==
  /\ response.status = 200
  /\ response.route = "readings"
  /\ \E i \in DOMAIN readings : readings[i].patientId # response.patientId
  /\ Len(response.body) = 100
  /\ Cardinality(ReadingsOf(readings, response.patientId)) > 100
  /\ \E k \in DOMAIN response.body :
       k > 1 /\ response.body[k - 1].timestamp = response.body[k].timestamp

\* ------------------------------------------------------------------ C11
\* C11: every answer of GET /api/patients/:patientId is 200 with the
\* stored patient of that identifier when there is one, 404 with error
\* 'Patient not found' when there is none, or 500 with the message of a
\* database error; nothing else.
C11_GetPatientAnswers ==
  [][ (response' # response /\ response'.route = "patient") =>
        LET found == { p \in patients : p.patientId = response'.patientId }
        IN  \/ /\ response'.status = 500
               /\ response'.body.error \in DbErrors
            \/ /\ found # {}
               /\ response'.status = 200
               /\ response'.body \in found
            \/ /\ found = {}
               /\ response'.status = 404
               /\ response'.body = [error |-> "Patient not found"] ]_vars

\* the request for an identifier no patient has was answered 404
C11_Witness ==
  /\ response.status = 404
  /\ response.route = "patient"
  /\ \A p \in patients : p.patientId # response.patientId
  /\ response.body.error = "Patient not found"

\* ------------------------------------------------------------------ C12
\* C12: a handler whose reading lookup resolves while the store holds no
\* reading of the patient in the window takes the create branch, whatever
\* the other handlers are about to save, and the save of a created reading
\* adds it to the store under an _id no stored reading has, next to the
\* readings already there; so two handlers of one patient that both look up
\* before either saves store two readings.
C12_RacingHandlersBothCreate ==
  [][ \A h \in Msgs :
        /\ (handlers[h].pc = "reading" /\ handlers'[h].pc = "save") =>
             ( handlers'[h].isNew <=>
                 ReadingMatches(readings, handlers[h].patient.patientId,
                                handlers[h].cutoff) = {} )
        /\ (handlers[h].pc = "save" /\ handlers'[h].pc = "emit" /\ handlers[h].isNew) =>
             /\ Len(readings') = Len(readings) + 1
             /\ \A i \in DOMAIN readings :
                  readings'[i] = readings[i] /\ readings[i]._id # handlers[h].reading._id
             /\ readings'[Len(readings')] = handlers[h].reading
             /\ readings'[Len(readings')].patientId = handlers[h].patient.patientId ]_vars

\* two handlers of one patient have each stored a reading of their own, and
\* the timestamps of the two readings are within 60 seconds of each other
C12_Witness ==
  \E h, g \in Msgs :
    /\ h # g /\ Saved(h) /\ Saved(g)
    /\ handlers[h].isNew /\ handlers[g].isNew
    /\ handlers[h].patient.patientId = handlers[g].patient.patientId
    /\ \E i \in Stored(handlers[h].saved) : \E j \in Stored(handlers[g].saved) :
         /\ i # j
         /\ readings[i]._id # readings[j]._id
         /\ readings[i].patientId = readings[j].patientId
         /\ readings[i].timestamp - readings[j].timestamp <= 60000
         /\ readings[j].timestamp - readings[i].timestamp <= 60000

\* ------------------------------------------------------------------ C13
\* a handler invocation between its first await and its return
InProgress(h) == handlers[h].pc \in {"patient", "reading", "save", "emit"}

\* the order a handler goes through its awaits in
HandlerOrder ==
  { <<"idle", "patient">>, <<"patient", "reading">>, <<"patient", "done">>,
    <<"reading", "save">>, <<"reading", "done">>, <<"save", "emit">>,
    <<"save", "done">>, <<"emit", "done">> }

\* C13 as stated: a handler has begun only when the handler of every
\* earlier message has ended.
C13_OneAtATime ==
  \A h, g \in Msgs : (h < g /\ Started(g)) => Ended(h)

\* C13 amended: the handlers begin in order of arrival, every step is a
\* step of one handler (from one await to the next, in the order patient
\* lookup, reading lookup, save, emit) and leaves the locals of every other
\* handler as they were; a handler may begin before an earlier one has ended.
C13_StepsOneAtATime ==
  [][ /\ \A h, g \in Msgs :
           h # g => (handlers'[h] = handlers[h] \/ handlers'[g] = handlers[g])
      /\ \A h \in Msgs :
           handlers'[h] # handlers[h] =>
             <<handlers[h].pc, handlers'[h].pc>> \in HandlerOrder
      /\ \A h, g \in Msgs :
           (h < g /\ handlers'[g].pc # "idle") => handlers'[h].pc # "idle" ]_vars

\* two handlers are in progress at once: the later one has run its reading
\* lookup while the earlier one is still awaiting its save
C13_Witness ==
  \E h, g \in Msgs :
    /\ h < g
    /\ handlers[h].pc = "save"
    /\ handlers[g].pc \in {"save", "emit"}
    /\ InProgress(h) /\ InProgress(g)

\* ------------------------------------------------------------------ C14
\* C14: the reading a message is merged into is, of the patient's stored
\* readings within the window of the lookup, one with the greatest
\* timestamp.
C14_MergesIntoMostRecent ==
  [][ \A h \in Msgs :
        ( /\ handlers[h].pc = "reading" /\ handlers'[h].pc = "save"
          /\ ~handlers'[h].isNew ) =>
        \A i \in ReadingMatches(readings, handlers[h].patient.patientId,
                                handlers[h].cutoff) :
          readings[i].timestamp <= handlers'[h].loaded.timestamp ]_vars

\* ------------------------------------------------------------------ C15
\* the properties of a reading a message may change: the vital of the field
\* it is addressed to, and isAlert
Carried(topic) ==
  (IF AddressedField(topic) \in KnownFields
   THEN {FieldSlot(AddressedField(topic))} ELSE {}) \cup {"isAlert"}

\* C15: the save of a merge adds and removes no reading, leaves every
\* reading but its one target as it was, and on the target leaves every
\* property but the vital carried by the message and isAlert as it was
\* (present with the same value, or absent), patientId and timestamp among
\* them; isAlert goes from false to true or stays.
C15_MergeFrame ==
  [][ \A h \in Msgs :
        ( /\ handlers[h].pc = "save" /\ handlers'[h].pc = "emit"
          /\ ~handlers[h].isNew ) =>
        LET target == Stored(handlers[h].reading._id)
        IN  /\ Cardinality(target) = 1
            /\ DOMAIN readings' = DOMAIN readings
            /\ \A i \in DOMAIN readings \ target : readings'[i] = readings[i]
            /\ \A i \in target :
                 /\ DOMAIN readings'[i] \ Carried(handlers[h].topic)
                      = DOMAIN readings[i] \ Carried(handlers[h].topic)
                 /\ \A f \in DOMAIN readings[i] \ Carried(handlers[h].topic) :
                      readings'[i][f] = readings[i][f]
                 /\ readings'[i].patientId = readings[i].patientId
                 /\ readings'[i].timestamp = readings[i].timestamp
                 /\ readings[i].isAlert => readings'[i].isAlert ]_vars

\* a message has been merged into one of two stored readings of its patient:
\* the target holds the message's value next to a vital it held before, and
\* its isAlert was set by the merge
C15_Witness ==
  \E h \in Msgs :
    /\ Saved(h) /\ ~handlers[h].isNew /\ handlers[h].isAlert
    /\ handlers[h].updatedReading # <<>>
    /\ \E i \in Stored(handlers[h].saved) :
         /\ \A f \in DOMAIN handlers[h].updatedReading :
              readings[i][f] = handlers[h].updatedReading[f]
         /\ (DOMAIN readings[i] \cap VitalFields) \ DOMAIN handlers[h].updatedReading # {}
         /\ readings[i].isAlert
         /\ \E j \in DOMAIN readings :
              j # i /\ readings[j].patientId = readings[i].patientId

\* ------------------------------------------------------------------ C16
\* the handlers whose message was saved into the reading: the one that
\* created it and those that merged into it
Contributors(reading) ==
  { h \in Msgs : Saved(h) /\ handlers[h].saved = reading._id }

\* C16: a stored reading's isAlert is true exactly when the verdict of at
\* least one message saved into it (by creating it or by a merge) was true.
C16_FlagIsSomeVerdict ==
  \A i \in DOMAIN readings :
    readings[i].isAlert <=> \E h \in Contributors(readings[i]) : handlers[h].isAlert

\* a reading holds the values of two messages, one with a true verdict and
\* one with a false verdict, and its isAlert is true; the message with the
\* false verdict was saved last
C16_Witness ==
  \E h, g \in Msgs : \E i \in DOMAIN readings :
    /\ h # g /\ h \in Contributors(readings[i]) /\ g \in Contributors(readings[i])
    /\ handlers[h].isAlert /\ ~handlers[g].isAlert
    /\ Ended(h) /\ handlers[g].pc = "emit"
    /\ handlers[g].updatedReading # <<>>
    /\ readings[i].isAlert

\* ------------------------------------------------------------------ C17
\* C17: no step changes the Patient collection; a step that answers a
\* request (list patients, get patient, get readings) leaves the Reading
\* collection as it was; the Reading collection changes only in the save
\* step of a message handler; and every stored reading stays stored, at its
\* place and under its _id.
C17_StoresFrame ==
  [][ /\ patients' = patients
      /\ (response' # response \/ requests' # requests) => readings' = readings
      /\ readings' # readings =>
           \E h \in Msgs : handlers[h].pc = "save" /\ handlers'[h].pc = "emit"
      /\ Len(readings') >= Len(readings)
      /\ \A i \in DOMAIN readings : readings'[i]._id = readings[i]._id ]_vars

\* a request was answered after a message handler had added a reading to
\* the Reading collection, and both collections hold what they held
C17_Witness ==
  /\ requests > 0
  /\ response.status = 200
  /\ \E h \in Msgs : Saved(h) /\ handlers[h].isNew /\ Stored(handlers[h].saved) # {}
  /\ patients = samplePatients
  /\ \E stored \in StoredLong :
       /\ Len(readings) > Len(stored)
       /\ \A i \in DOMAIN stored : readings[i]._id = stored[i]._id

\* ------------------------------------------------------------------ C18
\* C18: with every message handled after the one before it has ended, the
\* timestamps of any two stored readings of one patient are more than 60
\* seconds apart.
C18_ReadingsAWindowApart ==
  \A i, j \in DOMAIN readings :
    (i # j /\ readings[i].patientId = readings[j].patientId) =>
      \/ readings[i].timestamp - readings[j].timestamp > 60000
      \/ readings[j].timestamp - readings[i].timestamp > 60000

\* a message handled 60001 ms after the patient's reading was stored has
\* created a second reading, and a message after that was merged into it
C18_Witness ==
  \E h, g \in Msgs : \E i, j \in DOMAIN readings :
    /\ i # j /\ readings[i].patientId = readings[j].patientId
    /\ readings[j].timestamp - readings[i].timestamp = 60001
    /\ Saved(h) /\ handlers[h].isNew /\ handlers[h].saved = readings[j]._id
    /\ h # g /\ Saved(g) /\ ~handlers[g].isNew /\ handlers[g].saved = readings[j]._id

\* ------------------------------------------------------------------ C19
\* C19: the isAlert of every patientUpdate event is the verdict of the
\* message it was emitted for, whatever the flag of the stored reading; and
\* a message whose verdict is false has no patientAlert event.
C19_UpdateCarriesOwnVerdict ==
  \A k \in DOMAIN events :
    events[k].type = "patientUpdate" =>
      LET h == events[k].handler
      IN  /\ events[k].reading.isAlert = handlers[h].isAlert
          /\ ~handlers[h].isAlert => EventsOf(h, "patientAlert") = {}

\* a message with a false verdict was merged into a reading whose isAlert
\* is true: its patientUpdate carries isAlert false and it has no
\* patientAlert
C19_Witness ==
  \E h \in Msgs : \E k \in EventsOf(h, "patientUpdate") :
    /\ Ended(h) /\ Saved(h) /\ ~handlers[h].isNew /\ ~handlers[h].isAlert
    /\ \E i \in Stored(handlers[h].saved) : readings[i].isAlert
    /\ events[k].reading.isAlert = FALSE
    /\ EventsOf(h, "patientAlert") = {}

\* ------------------------------------------------------------------ C20
\* the patient a message is addressed to
AddressedPatient(topic) ==
  CHOOSE p \in patients : p.thingspeakChannelId = AddressedChannel(topic)

\* the handler's message is for a known patient and one of field1..field5
ForKnownPatientAndField(h) ==
  /\ Started(h)
  /\ KnownChannel(handlers[h].topic)
  /\ AddressedField(handlers[h].topic) \in KnownFields

\* a stored reading of the patient holds the number the message carries in
\* the vital of the field the message is addressed to
HoldsValueOf(h) ==
  \E i \in DOMAIN readings :
    /\ ForKnownPatientAndField(h)
    /\ readings[i].patientId = AddressedPatient(handlers[h].topic).patientId
    /\ FieldSlot(AddressedField(handlers[h].topic)) \in DOMAIN readings[i]
    /\ readings[i][FieldSlot(AddressedField(handlers[h].topic))]
         = parseFloat(handlers[h].message)

\* C20: when the database fails no call and every ready continuation is
\* run, every handler that has begun ends, and every message for a known
\* patient addressed to field1..field5 whose save is not rejected leads,
\* from its arrival, to a stored reading of the patient holding its value in
\* the field's vital, and to one patientUpdate event of its handler.
C20_EveryMessageStored ==
  \A h \in Msgs :
    /\ Started(h) ~> Ended(h)
    /\ (handlers[h].pc = "patient" /\ ForKnownPatientAndField(h))
         ~> (handlers[h].error \/ HoldsValueOf(h))
    /\ ForKnownPatientAndField(h)
         ~> (handlers[h].error \/ Cardinality(EventsOf(h, "patientUpdate")) = 1)
====
